---------------------------- MODULE Spec2Model ----------------------------
(***************************************************************************)
(* A model of the per-user file storage of STL Hub (src/main.py):          *)
(* safe_path, the five file handlers built on it, and the storage tree     *)
(* they read and write.                                                    *)
(*                                                                         *)
(* A string is a sequence of one-character strings, so that replace(),     *)
(* startswith() and lower() are computed character by character.  A path   *)
(* is the sequence of its segments below "/" (every path of the program is *)
(* absolute: FTP_ROOT is).  The storage tree holds directories and regular *)
(* files only: none of the five handlers creates a symbolic link, so       *)
(* Path.resolve() reduces to the removal of ".." segments.                 *)
(***************************************************************************)
EXTENDS Integers, Sequences, FiniteSets, TLC

VARIABLES
    dirs,    \* the directories of the filesystem (a set of paths)
    files,   \* the regular files: path -> content (a sequence of bytes)
    req,     \* the request being served (or served last)
    resp,    \* the response to it
    nops,    \* the number of requests served so far
    tasks    \* the upload coroutines in flight: task -> its locals and position

vars == <<dirs, files, req, resp, nops, tasks>>

-----------------------------------------------------------------------------
(* Bounds *)

MaxOps == 3        \* requests served in one behaviour of Spec
MaxIdLen == 3      \* length of an identity string in SpecPath
MaxRelLen == 5     \* length of a relative path string in SpecPath
MaxBody == 2       \* length of an upload body in SpecUpload
MaxChildren == 3   \* children of the listed directory in SpecList

-----------------------------------------------------------------------------
(* Strings *)

Sep == "/"
Dot == "."
DotDot == <<".", ".">>

\* ord(c), for the characters the model uses
Ord(c) ==
    CASE c = "." -> 46 [] c = "/" -> 47 [] c = "@" -> 64 [] c = "B" -> 66
      [] c = "_" -> 95 [] c = "a" -> 97 [] c = "b" -> 98 [] c = "t" -> 116

\* str.lower(), character by character
LowerChar(c) == IF c = "B" THEN "b" ELSE c
Lower(s) == [i \in 1..Len(s) |-> LowerChar(s[i])]

\* s < t, as Python compares two str: by code point, a proper prefix first
RECURSIVE StrLess(_, _)
StrLess(s, t) ==
    IF t = <<>> THEN FALSE
    ELSE IF s = <<>> THEN TRUE
    ELSE IF s[1] # t[1] THEN Ord(s[1]) < Ord(t[1])
    ELSE StrLess(Tail(s), Tail(t))

\* s.replace(c, r) for a one-character c
RECURSIVE Replace(_, _, _)
Replace(s, c, r) ==
    IF s = <<>> THEN <<>>
    ELSE (IF s[1] = c THEN r ELSE <<s[1]>>) \o Replace(Tail(s), c, r)

\* s.startswith(prefix)
StartsWith(s, prefix) ==
    /\ Len(prefix) <= Len(s)
    /\ SubSeq(s, 1, Len(prefix)) = prefix

\* s.split("/")
RECURSIVE SplitFrom(_, _)
SplitFrom(s, cur) ==
    IF s = <<>> THEN <<cur>>
    ELSE IF s[1] = Sep THEN <<cur>> \o SplitFrom(Tail(s), <<>>)
    ELSE SplitFrom(Tail(s), Append(cur, s[1]))
Split(s) == SplitFrom(s, <<>>)

\* all strings over chars of length at most n
RECURSIVE StringsUpTo(_, _)
StringsUpTo(chars, n) ==
    IF n = 0 THEN {<<>>}
    ELSE LET shorter == StringsUpTo(chars, n - 1) IN
         shorter \cup {Append(s, c) : s \in shorter, c \in chars}

-----------------------------------------------------------------------------
(* pathlib *)

\* the segments pathlib keeps of a string: empty ones and "." are dropped, ".." stays
Parts(s) ==
    SelectSeq(Split(s), LAMBDA seg : seg # <<>> /\ seg # <<Dot>>)

IsAbsolute(s) == s # <<>> /\ s[1] = Sep

\* base / s : an absolute s replaces the base
PathJoin(base, s) == IF IsAbsolute(s) THEN Parts(s) ELSE base \o Parts(s)

\* Path.parent
Parent(p) == IF p = <<>> THEN <<>> ELSE SubSeq(p, 1, Len(p) - 1)

\* Path.resolve() of an absolute path in a tree without symbolic links
RECURSIVE ResolveFrom(_, _)
ResolveFrom(done, todo) ==
    IF todo = <<>> THEN done
    ELSE IF Head(todo) = DotDot THEN ResolveFrom(Parent(done), Tail(todo))
    ELSE ResolveFrom(Append(done, Head(todo)), Tail(todo))
Resolve(p) == ResolveFrom(<<>>, p)

\* str(path)
RECURSIVE JoinSegs(_)
JoinSegs(p) ==
    IF p = <<>> THEN <<>> ELSE <<Sep>> \o Head(p) \o JoinSegs(Tail(p))
Str(p) == IF p = <<>> THEN <<Sep>> ELSE JoinSegs(p)

\* p is q or lies below q (segment by segment)
IsUnder(p, q) == Len(q) <= Len(p) /\ SubSeq(p, 1, Len(q)) = q


-----------------------------------------------------------------------------
(* The filesystem: what the kernel does with a path *)

\* FTP_ROOT, the default "/srv/stl-hub/files" shortened to "/s/f"
FTP_ROOT == << <<"s">>, <<"f">> >>

\* The tree when the application has started: FTP_ROOT.mkdir(parents=True)
InitDirs == {SubSeq(FTP_ROOT, 1, n) : n \in 0..Len(FTP_ROOT)}
NoFiles == [p \in {} |-> <<>>]

\* The kernel's walk along the segments of a path: every segment but the
\* last must be an existing directory, ".." steps to the parent ("/" is its
\* own parent).  The result names the node the path denotes, existing or not.
RECURSIVE KWalkFrom(_, _, _, _)
KWalkFrom(D, F, cur, segs) ==
    IF segs = <<>> THEN [err |-> "ok", path |-> cur]
    ELSE IF Head(segs) = DotDot THEN KWalkFrom(D, F, Parent(cur), Tail(segs))
    ELSE LET nxt == Append(cur, Head(segs)) IN
         IF Tail(segs) = <<>> THEN [err |-> "ok", path |-> nxt]
         ELSE IF nxt \in D THEN KWalkFrom(D, F, nxt, Tail(segs))
         ELSE IF nxt \in DOMAIN F THEN [err |-> "ENOTDIR", path |-> nxt]
         ELSE [err |-> "ENOENT", path |-> nxt]
KWalk(D, F, p) == KWalkFrom(D, F, <<>>, p)

\* Path.is_dir(), Path.is_file(), Path.exists(): stat, any error read as False
IsDir(D, F, p) == LET w == KWalk(D, F, p) IN w.err = "ok" /\ w.path \in D
IsFile(D, F, p) == LET w == KWalk(D, F, p) IN w.err = "ok" /\ w.path \in DOMAIN F
Exists(D, F, p) == IsDir(D, F, p) \/ IsFile(D, F, p)

\* os.mkdir(p)
OsMkdir(D, F, p) ==
    LET w == KWalk(D, F, p) IN
    IF w.err # "ok" THEN [err |-> w.err, dirs |-> D]
    ELSE IF w.path \in D \/ w.path \in DOMAIN F THEN [err |-> "EEXIST", dirs |-> D]
    ELSE [err |-> "ok", dirs |-> D \cup {w.path}]

\* Path.mkdir(parents, exist_ok) of pathlib: os.mkdir; on FileNotFoundError
\* with parents, the parent first (parents=True, exist_ok=True) and then the
\* path again; on any other OSError, an error unless exist_ok and is_dir()
RECURSIVE PathMkdir(_, _, _, _, _)
PathMkdir(D, F, p, parents, exist_ok) ==
    LET r == OsMkdir(D, F, p) IN
    IF r.err = "ok" THEN [ok |-> TRUE, dirs |-> r.dirs]
    ELSE IF r.err = "ENOENT" THEN
        IF ~parents \/ Parent(p) = p THEN [ok |-> FALSE, dirs |-> D]
        ELSE LET up == PathMkdir(D, F, Parent(p), TRUE, TRUE) IN
             IF ~up.ok THEN up
             ELSE PathMkdir(up.dirs, F, p, FALSE, exist_ok)
    ELSE IF exist_ok /\ IsDir(D, F, p) THEN [ok |-> TRUE, dirs |-> D]
    ELSE [ok |-> FALSE, dirs |-> D]

\* the nodes at or below p
Subtree(D, F, p) == {q \in D \cup DOMAIN F : IsUnder(q, p)}

\* the names of the immediate children of directory p
Children(D, F, p) ==
    {q[Len(q)] : q \in {x \in D \cup DOMAIN F : Len(x) = Len(p) + 1 /\ IsUnder(x, p)}}

-----------------------------------------------------------------------------
(* safe_path *)

\* FTP_ROOT / user_email.replace("@", "_at_").replace(".", "_")
UserDir(user_email) ==
    PathJoin(FTP_ROOT,
             Replace(Replace(user_email, "@", <<"_", "a", "t", "_">>), ".", <<"_">>))

\* str(resolved).startswith(str(user_dir.resolve()))
Contained(resolved, user_dir) == StartsWith(Str(resolved), Str(Resolve(user_dir)))

\* safe_path(user_email, relative) on the tree (D, F): the status (200, or
\* the HTTPException's 400, or 500 when user_dir.mkdir raises), the path
\* returned, and the directories after user_dir.mkdir
safe_path(D, F, user_email, relative) ==
    LET user_dir == UserDir(user_email)
        mk == PathMkdir(D, F, user_dir, TRUE, TRUE)
        resolved == Resolve(PathJoin(user_dir, relative))
    IN  IF ~mk.ok THEN [status |-> 500, path |-> <<>>, dirs |-> mk.dirs]
        ELSE IF relative = <<>> \/ relative \in {<<Dot>>, <<Sep>>, <<>>}
             THEN [status |-> 200, path |-> user_dir, dirs |-> mk.dirs]
        ELSE IF ~Contained(resolved, user_dir)
             THEN [status |-> 400, path |-> <<>>, dirs |-> mk.dirs]
        ELSE [status |-> 200, path |-> resolved, dirs |-> mk.dirs]

-----------------------------------------------------------------------------
(* SpecPath: safe_path applied to every identity and every relative path   *)
(* of bounded length, on the tree of a freshly started application         *)

IdChars == {"a", "@", ".", "/", "_"}
RelChars == {"a", ".", "/"}
Identities == StringsUpTo(IdChars, MaxIdLen)
Relatives == StringsUpTo(RelChars, MaxRelLen)

NoResp == [op |-> "none", status |-> 0]
NoTasks == <<>>

InitPath ==
    /\ dirs = InitDirs
    /\ files = NoFiles
    /\ req \in [op : {"safe_path"}, email : Identities, path : Relatives]
    /\ resp = NoResp
    /\ nops = 0
    /\ tasks = NoTasks

CallSafePath ==
    /\ req.op = "safe_path"
    /\ resp.op = "none"
    /\ LET r == safe_path(dirs, files, req.email, req.path) IN
         /\ resp' = [op |-> "safe_path", status |-> r.status, path |-> r.path]
         /\ dirs' = r.dirs
    /\ UNCHANGED <<files, req, nops, tasks>>

NextPath == CallSafePath

SpecPath == InitPath /\ [][NextPath]_vars

-----------------------------------------------------------------------------
(* The file handlers.  A request is served in one step: list, download,    *)
(* delete and mkdir have no await between their filesystem calls, and in   *)
(* Spec the requests are served one after the other (SpecUpload splits     *)
(* upload_file at its awaits).                                             *)

\* all the orders in which iterdir() may yield the set S
Orders(S) ==
    {f \in [1..Cardinality(S) -> S] : \A i, j \in 1..Cardinality(S) : f[i] = f[j] => i = j}

\* a sort key that compares the names as they are, without lower()
SortKeyCaseSensitive(D, F, p) == [is_file |-> IsFile(D, F, p), name |-> p[Len(p)]]

\* the key of sorted(): (p.is_file(), p.name.lower())
SortKey(D, F, p) == [is_file |-> IsFile(D, F, p), name |-> Lower(p[Len(p)])]

\* k1 < k2 for two such tuples: False before True, then the names
KeyLess(k1, k2) ==
    IF k1.is_file # k2.is_file THEN k2.is_file
    ELSE StrLess(k1.name, k2.name)

\* sorted(seq, key=...): stable, so x goes after every earlier element whose
\* key is not greater
InsertSorted(D, F, x, s) ==
    LET later == {i \in 1..Len(s) : KeyLess(SortKey(D, F, x), SortKey(D, F, s[i]))}
        at == IF later = {} THEN Len(s) + 1
              ELSE CHOOSE i \in later : \A j \in later : i <= j
    IN  SubSeq(s, 1, at - 1) \o <<x>> \o SubSeq(s, at, Len(s))

RECURSIVE Sorted(_, _, _)
Sorted(D, F, seq) ==
    IF seq = <<>> THEN <<>>
    ELSE InsertSorted(D, F, seq[Len(seq)], Sorted(D, F, SubSeq(seq, 1, Len(seq) - 1)))

\* file_info(path, base), without the modification time and the is_stl flag;
\* path.relative_to(base) raises ValueError when path is not below base
file_info(D, F, path, base) ==
    [ name   |-> path[Len(path)],
      path   |-> SubSeq(path, Len(base) + 1, Len(path)),
      is_dir |-> IsDir(D, F, path),
      size   |-> IF IsFile(D, F, path) THEN Len(F[path]) ELSE 0 ]

\* the response of list_files once base and target are known, iterdir()
\* yielding the children in the order `order`
ListResponse(D, F, path, base, target, order) ==
    LET items == Sorted(D, F, [i \in 1..Len(order) |-> Append(target, order[i])]) IN
    IF \E i \in 1..Len(items) : ~IsUnder(items[i], base)
    THEN [op |-> "list", status |-> 500]
    ELSE [op |-> "list", status |-> 200, path |-> path,
          items |-> [i \in 1..Len(items) |-> file_info(D, F, items[i], base)]]

list_files(email, path) ==
    \E base \in {safe_path(dirs, files, email, <<>>)} :
    \E target \in {safe_path(base.dirs, files, email, path)} :
        /\ req' = [op |-> "list", email |-> email, path |-> path]
        /\ dirs' = IF base.status = 200 THEN target.dirs ELSE base.dirs
        /\ IF base.status # 200 THEN resp' = [op |-> "list", status |-> base.status]
           ELSE IF target.status # 200 THEN resp' = [op |-> "list", status |-> target.status]
           ELSE IF ~Exists(target.dirs, files, target.path)
                THEN resp' = [op |-> "list", status |-> 404]
           ELSE IF ~IsDir(target.dirs, files, target.path)
                THEN resp' = [op |-> "list", status |-> 500]
           ELSE \E order \in Orders(Children(target.dirs, files, target.path)) :
                  resp' = ListResponse(target.dirs, files, path, base.path, target.path, order)
        /\ UNCHANGED files

\* open(dest, "wb") followed by write(content) and close; dest is
\* safe_path(...) / file.filename and new_dir is safe_path(...) / name
OpenWrite(D, F, dest, content) ==
    LET w == KWalk(D, F, dest) IN
    IF w.err # "ok" \/ w.path \in D THEN [ok |-> FALSE, files |-> F]
    ELSE [ok |-> TRUE, files |-> (w.path :> content) @@ F]

upload_file(email, path, filename, content) ==
    \E target \in {safe_path(dirs, files, email, path)} :
    \E out \in {OpenWrite(target.dirs, files, PathJoin(target.path, filename), content)} :
        /\ req' = [op |-> "upload", email |-> email, path |-> path,
                   filename |-> filename, content |-> content]
        /\ dirs' = target.dirs
        /\ IF target.status # 200
           THEN resp' = [op |-> "upload", status |-> target.status] /\ UNCHANGED files
           ELSE IF ~out.ok
           THEN resp' = [op |-> "upload", status |-> 500] /\ UNCHANGED files
           ELSE /\ files' = out.files
                /\ resp' = [op |-> "upload", status |-> 200, size |-> Len(content)]

download_file(email, path) ==
    \E target \in {safe_path(dirs, files, email, path)} :
        /\ req' = [op |-> "download", email |-> email, path |-> path]
        /\ dirs' = target.dirs
        /\ IF target.status # 200 THEN resp' = [op |-> "download", status |-> target.status]
           ELSE IF ~IsFile(target.dirs, files, target.path)
                THEN resp' = [op |-> "download", status |-> 404]
           ELSE resp' = [op |-> "download", status |-> 200,
                         filename |-> target.path[Len(target.path)],
                         content |-> files[target.path]]
        /\ UNCHANGED files

\* a delete_file without the exists() test: a missing target is "deleted"
delete_file_unchecked(email, path) ==
    \E target \in {safe_path(dirs, files, email, path)} :
    LET gone == Subtree(target.dirs, files, target.path) IN
        /\ req' = [op |-> "delete", email |-> email, path |-> path]
        /\ IF target.status # 200
           THEN /\ resp' = [op |-> "delete", status |-> target.status]
                /\ dirs' = target.dirs /\ UNCHANGED files
           ELSE /\ dirs' = target.dirs \ gone
                /\ files' = [q \in DOMAIN files \ gone |-> files[q]]
                /\ resp' = [op |-> "delete", status |-> 200]

delete_file(email, path) ==
    \E target \in {safe_path(dirs, files, email, path)} :
    LET gone == Subtree(target.dirs, files, target.path) IN
        /\ req' = [op |-> "delete", email |-> email, path |-> path]
        /\ IF target.status # 200
           THEN /\ resp' = [op |-> "delete", status |-> target.status]
                /\ dirs' = target.dirs /\ UNCHANGED files
           ELSE IF ~Exists(target.dirs, files, target.path)
           THEN /\ resp' = [op |-> "delete", status |-> 404]
                /\ dirs' = target.dirs /\ UNCHANGED files
           ELSE IF IsDir(target.dirs, files, target.path)
           THEN \* shutil.rmtree(target)
                /\ dirs' = target.dirs \ gone
                /\ files' = [q \in DOMAIN files \ gone |-> files[q]]
                /\ resp' = [op |-> "delete", status |-> 200]
           ELSE \* target.unlink()
                /\ dirs' = target.dirs
                /\ files' = [q \in DOMAIN files \ {target.path} |-> files[q]]
                /\ resp' = [op |-> "delete", status |-> 200]

make_dir(email, path, name) ==
    \E target \in {safe_path(dirs, files, email, path)} :
    \E mk \in {PathMkdir(target.dirs, files, PathJoin(target.path, name), TRUE, TRUE)} :
        /\ req' = [op |-> "mkdir", email |-> email, path |-> path, name |-> name]
        /\ IF target.status # 200
           THEN resp' = [op |-> "mkdir", status |-> target.status] /\ dirs' = target.dirs
           ELSE IF ~mk.ok
           THEN resp' = [op |-> "mkdir", status |-> 500] /\ dirs' = mk.dirs
           ELSE resp' = [op |-> "mkdir", status |-> 200] /\ dirs' = mk.dirs
        /\ UNCHANGED files

-----------------------------------------------------------------------------
(* Spec: an authenticated user issues up to MaxOps requests, one after the  *)
(* other, on the tree of a freshly started application                     *)

\* the identity "a": its root is /s/f/a (/s/f/ab would be the root of "ab")
Users == { <<"a">> }

\* the `path` values a client sends: "", "b", "b/a", "..", "../ab"
ReqPaths ==
    { <<>>, <<"b">>, <<"b", "/", "a">>,
      <<".", ".">>, <<".", ".", "/", "a", "b">> }

\* the `filename` values of an upload: "a", "B", "../b"
FileNames == { <<"a">>, <<"B">>, <<".", ".", "/", "b">> }

\* the `name` values of a mkdir: "b", "../b"
DirNames == { <<"b">>, <<".", ".", "/", "b">> }

\* the bodies of an upload
Contents == { <<1>>, <<2, 2>> }

Init ==
    /\ dirs = InitDirs
    /\ files = NoFiles
    /\ req = [op |-> "none"]
    /\ resp = NoResp
    /\ nops = 0
    /\ tasks = NoTasks

Serve(handler) ==
    /\ nops < MaxOps
    /\ nops' = nops + 1
    /\ handler
    /\ UNCHANGED tasks

Next ==
    \E email \in Users, path \in ReqPaths :
        \/ Serve(list_files(email, path))
        \/ \E filename \in FileNames, content \in Contents :
              Serve(upload_file(email, path, filename, content))
        \/ Serve(download_file(email, path))
        \/ Serve(delete_file(email, path))
        \/ \E name \in DirNames : Serve(make_dir(email, path, name))

Spec == Init /\ [][Next]_vars

-----------------------------------------------------------------------------
(* SpecList: list_files applied to the user's root, for every content of   *)
(* at most MaxChildren directories and regular files that earlier uploads  *)
(* and mkdirs can have left there, and every order iterdir() may yield     *)

\* the names a child may have: "a", "B", "b", "ab", "aB", "_"
ListNames == { <<"a">>, <<"B">>, <<"b">>, <<"a", "b">>, <<"a", "B">>, <<"_">> }
ListEmail == <<"a">>

\* a content gives each name a directory, a regular file, or nothing
DirContents ==
    {c \in [ListNames -> {"none", "dir", "file"}] :
        Cardinality({n \in ListNames : c[n] # "none"}) <= MaxChildren}

InitList ==
    /\ \E c \in DirContents :
          /\ dirs = InitDirs \cup {UserDir(ListEmail)}
                      \cup {Append(UserDir(ListEmail), n) : n \in {x \in ListNames : c[x] = "dir"}}
          /\ files = [q \in {Append(UserDir(ListEmail), n) : n \in {x \in ListNames : c[x] = "file"}}
                        |-> <<1>>]
    /\ req = [op |-> "none"]
    /\ resp = NoResp
    /\ nops = 0
    /\ tasks = NoTasks

ListRoot ==
    /\ resp.op = "none"
    /\ list_files(ListEmail, <<>>)
    /\ UNCHANGED <<nops, tasks>>

NextList == ListRoot

SpecList == InitList /\ [][NextList]_vars

-----------------------------------------------------------------------------
(* SpecUpload: two upload_file coroutines of the same user write the same  *)
(* destination; a coroutine may be suspended at each await (the open, the  *)
(* read of the body, the write), where the other one runs.                 *)

UploadTasks == {1, 2}
UploadEmail == <<"a">>
UploadPath == <<>>
UploadFilename == <<"a">>
Bytes == {1, 2}
Bodies == StringsUpTo(Bytes, MaxBody)

\* write(data) through a handle opened with "wb" whose position is 0: the
\* bytes replace the first len(data) bytes of the file, the rest stays
WriteAtStart(old, data) == data \o SubSeq(old, Len(data) + 1, Len(old))

InitUpload ==
    /\ dirs = InitDirs
    /\ files = NoFiles
    /\ req = [op |-> "none"]
    /\ resp = NoResp
    /\ nops = 0
    /\ tasks \in [UploadTasks -> [pc : {"start"}, body : Bodies, dest : {<<>>},
                                  content : {<<>>}, buffer : {<<>>}, status : {0}]]

\* dest = safe_path(user["email"], path) / file.filename
UploadStart(t) ==
    /\ tasks[t].pc = "start"
    /\ \E target \in {safe_path(dirs, files, UploadEmail, UploadPath)} :
          /\ dirs' = target.dirs
          /\ tasks' = IF target.status # 200
                      THEN [tasks EXCEPT ![t].pc = "done", ![t].status = target.status]
                      ELSE [tasks EXCEPT ![t].pc = "open",
                                         ![t].dest = PathJoin(target.path, UploadFilename)]
    /\ UNCHANGED <<files, req, resp, nops>>

\* aiofiles.open(dest, "wb"): the file is created or truncated
UploadOpen(t) ==
    /\ tasks[t].pc = "open"
    /\ \E out \in {OpenWrite(dirs, files, tasks[t].dest, <<>>)} :
          IF ~out.ok
          THEN /\ tasks' = [tasks EXCEPT ![t].pc = "done", ![t].status = 500]
               /\ UNCHANGED files
          ELSE /\ tasks' = [tasks EXCEPT ![t].pc = "read"]
               /\ files' = out.files
    /\ UNCHANGED <<dirs, req, resp, nops>>

\* content = await file.read()
UploadRead(t) ==
    /\ tasks[t].pc = "read"
    /\ tasks' = [tasks EXCEPT ![t].pc = "write", ![t].content = tasks[t].body]
    /\ UNCHANGED <<dirs, files, req, resp, nops>>

\* await out.write(content): a body that fits the writer's buffer stays in
\* it until the close, a larger one is written to the file at once
UploadWrite(t) ==
    /\ tasks[t].pc = "write"
    /\ \/ /\ tasks' = [tasks EXCEPT ![t].pc = "close", ![t].buffer = tasks[t].content]
          /\ UNCHANGED files
       \/ /\ tasks' = [tasks EXCEPT ![t].pc = "close"]
          /\ files' = [files EXCEPT ![tasks[t].dest] = WriteAtStart(@, tasks[t].content)]
    /\ UNCHANGED <<dirs, req, resp, nops>>

\* leaving the async with: the buffer is flushed and the file closed; the
\* handler returns {"message", "size"}
UploadClose(t) ==
    /\ tasks[t].pc = "close"
    /\ tasks' = [tasks EXCEPT ![t].pc = "done", ![t].status = 200, ![t].buffer = <<>>]
    /\ files' = [files EXCEPT ![tasks[t].dest] = WriteAtStart(@, tasks[t].buffer)]
    /\ UNCHANGED <<dirs, req, resp, nops>>

NextUpload ==
    \E t \in UploadTasks :
        \/ UploadStart(t)
        \/ UploadOpen(t)
        \/ UploadRead(t)
        \/ UploadWrite(t)
        \/ UploadClose(t)

SpecUpload == InitUpload /\ [][NextUpload]_vars

-----------------------------------------------------------------------------
(* Claims about safe_path, checked under SpecPath *)

Called == resp.op = "safe_path"

\* An identity as an identity provider issues it: not empty, no path
\* separator in it.  C1, C3, C5 and C6 are stated for these identities (the
\* identities with a separator are the case of C4).
PlainIdentity(e) == e # <<>> /\ \A i \in 1..Len(e) : e[i] # Sep

\* C1: whatever the identity and the relative path, safe_path either fails
\* with the containment error or returns UserRoot or a descendant of it;
\* it never returns a sibling, an ancestor or another outside location.
C1_ResolvedInsideUserRoot ==
    (Called /\ PlainIdentity(req.email) /\ resp.status = 200)
        => IsUnder(Resolve(resp.path), Resolve(UserDir(req.email)))

\* C3: the roots of two different identities are different directories and
\* neither lies below the other.
C3_RootsDisjoint ==
    (Called /\ PlainIdentity(req.email) /\ resp.status = 200 /\ req.path = <<>>)
        => \A other \in {e \in Identities : PlainIdentity(e)} \ {req.email} :
              LET r == safe_path(dirs, files, other, <<>>).path IN
              ~IsUnder(r, resp.path) /\ ~IsUnder(resp.path, r)

\* C4: for every identity the user root lies under FTP_ROOT, and safe_path
\* creates no directory outside FTP_ROOT.
C4_RootUnderFtpRoot ==
    Called
        => /\ IsUnder(UserDir(req.email), FTP_ROOT)
           /\ \A d \in dirs \ InitDirs : IsUnder(d, FTP_ROOT)

\* a relative path that denotes no sub-path: "", "." or separators only
OnlySeparators(s) == \A i \in 1..Len(s) : s[i] = Sep
NoSubPath(s) == s = <<Dot>> \/ OnlySeparators(s)

\* C5: for a relative path that denotes no sub-path ("", ".", "/", "//", ...)
\* safe_path succeeds and returns UserRoot.
C5_NoSubPathIsRoot ==
    (Called /\ PlainIdentity(req.email) /\ NoSubPath(req.path))
        => resp.status = 200 /\ resp.path = UserDir(req.email)

\* s without its leading separators
RECURSIVE StripLeadingSep(_)
StripLeadingSep(s) ==
    IF IsAbsolute(s) THEN StripLeadingSep(Tail(s)) ELSE s

\* C6: a relative path with a leading separator and at least one segment is
\* resolved relative to UserRoot: the outcome is that of the same path
\* without its leading separators.
C6_LeadingSepRelative ==
    (Called /\ PlainIdentity(req.email) /\ IsAbsolute(req.path) /\ Parts(req.path) # <<>>)
        => LET r == safe_path(InitDirs, NoFiles, req.email, StripLeadingSep(req.path)) IN
           resp.status = r.status /\ resp.path = r.path

-----------------------------------------------------------------------------
(* Claims about the file handlers, checked under Spec (C7: under SpecList) *)

Nodes(D, F) == D \cup DOMAIN F

\* C2: whatever path, filename and name the client sends, a request of
\* identity I leaves every file and directory outside UserRoot(I) as it was:
\* none is created, overwritten or deleted.
C2_OutsideUserRootUnchanged ==
    [][ \A q \in Nodes(dirs, files) \cup Nodes(dirs', files') :
          ~IsUnder(q, UserDir(req'.email))
            => /\ q \in dirs <=> q \in dirs'
               /\ q \in DOMAIN files <=> q \in DOMAIN files'
               /\ (q \in DOMAIN files /\ q \in DOMAIN files') => files[q] = files'[q]
      ]_vars

\* C7: list_files returns every immediate child of the listed directory
\* exactly once, every directory before every regular file, and each of the
\* two groups in ascending order of the lower-cased names.
C7_ListingOrder ==
    (resp.op = "list" /\ resp.status = 200)
        => LET items == resp.items
               target == safe_path(dirs, files, req.email, req.path).path
           IN  /\ {items[i].name : i \in 1..Len(items)} = Children(dirs, files, target)
               /\ \A i, j \in 1..Len(items) : items[i].name = items[j].name => i = j
               /\ \A i \in 1..Len(items) :
                     items[i].is_dir = (Append(target, items[i].name) \in dirs)
               /\ \A i, j \in 1..Len(items) :
                     i < j => /\ items[j].is_dir => items[i].is_dir
                              /\ items[i].is_dir = items[j].is_dir
                                   => ~StrLess(Lower(items[j].name), Lower(items[i].name))

\* C7 witness: the listing of a root that holds the directory "b" and the
\* regular files "B" and "a": the directory first, then "a" before "B"
C7_Witness ==
    /\ resp.op = "list" /\ resp.status = 200
    /\ Len(resp.items) = 3
    /\ resp.items[1].name = <<"b">> /\ resp.items[1].is_dir
    /\ resp.items[2].name = <<"a">> /\ ~resp.items[2].is_dir
    /\ resp.items[3].name = <<"B">> /\ ~resp.items[3].is_dir

\* the path resolves inside UserRoot and names nothing that exists
MissingInside(D, F, email, path) ==
    LET target == safe_path(D, F, email, path) IN
    /\ target.status = 200
    /\ IsUnder(target.path, UserDir(email))
    /\ ~Exists(target.dirs, F, target.path)

\* C8: a delete request whose path resolves inside UserRoot but names
\* nothing that exists is answered 404, never with a confirmation, and
\* removes no file and no directory.
C8_DeleteMissingIs404 ==
    [][ (req'.op = "delete" /\ MissingInside(dirs, files, req'.email, req'.path))
          => /\ resp'.status = 404
             /\ dirs \subseteq dirs'
             /\ files' = files
      ]_vars

\* C8 witness: "b/a" has been asked to be deleted, it resolves inside
\* UserRoot, does not exist, and the answer was 404
C8_Witness ==
    /\ req.op = "delete" /\ req.path = <<"b", "/", "a">>
    /\ MissingInside(dirs, files, req.email, req.path)
    /\ resp.status = 404

\* C9: once UserRoot(I) exists, no file operation removes it, whatever the
\* path (a delete of "", "." or "/" included).
C9_UserRootNeverRemoved ==
    [][ \A email \in Users : UserDir(email) \in dirs => UserDir(email) \in dirs' ]_vars

-----------------------------------------------------------------------------
(* Claim about concurrent uploads, checked under SpecUpload *)

\* C10: when two uploads of the same destination, interleaved at their
\* awaits, have both completed, the file holds the complete body of one of
\* the two and never a mixture of both.
C10_LastWriterWins ==
    (\A t \in UploadTasks : tasks[t].pc = "done" /\ tasks[t].status = 200)
        => \E t \in UploadTasks : files[tasks[t].dest] = tasks[t].body

=============================================================================
